---- MODULE Spec2Model ----
(***************************************************************************)
(* Ledger engine of the transaction processor: Money (src/main.rs),        *)
(* TransactionRecord (src/transactions.rs), Account and AccountDatabase    *)
(* (src/accounts.rs).  One action per record kind fed to                   *)
(* AccountDatabase::apply by the ingestion loop of read_transactions.      *)
(*                                                                         *)
(* Money is a u64 scaled by 10000.  The amounts of the model are small     *)
(* scaled integers, so no sum reaches 2^64; a subtraction with a larger    *)
(* subtrahend (a panic or a wrap in Rust) shows up as a negative number.   *)
(***************************************************************************)
EXTENDS Integers, FiniteSets, Sequences, TLC

\* ---- bounds of the model ----
MaxTx == 2
MaxAmount == 2
MaxRecords == 5
MaxTextLen == 4

\* two client ids: no operation involves more than the client a record is
\* addressed to and the client that recorded the transaction it references
Clients == {1, 2}
TxIds == 1..MaxTx
Amounts == 0..MaxAmount

VARIABLES
    accounts,               \* AccountDatabase.accounts: client_id -> Account
    transactions,           \* AccountDatabase.transactions: transaction_id -> record
    disputed_transactions,  \* AccountDatabase.disputed_transactions
    consumed,               \* number of records the ingestion loop has applied
    deposited,              \* per client: sum of the Deposit amounts added to available
    withdrawn,              \* per client: sum of the Withdrawl amounts taken from available
    moved,                  \* per disputed transaction id: what its accepted Dispute moved to held
    open_disputes,          \* ids with an accepted Dispute and no accepted Resolve/Chargeback since
    addressed,              \* client ids of the records applied so far
    served,                 \* client ids of the records accepted so far
    stream,                 \* the records applied so far, kept by the scenario runs only
    text,                   \* the money text handed to Money::from_str, in the parsing runs only
    parsed                  \* what Money::from_str answered for text

ledger == <<accounts, transactions, disputed_transactions, consumed, deposited, withdrawn, moved,
            open_disputes, addressed, served>>

vars == <<ledger, stream, text, parsed>>

\* ---- Money (src/main.rs) ----
Money_zero == 0

Money_add(a, b) == a + b

Money_sub(a, b) == a - b

min(a, b) == IF a <= b THEN a ELSE b

\* ---- Money texts: a text is a sequence of one-character strings ----
Ok(v) == [ok |-> TRUE, value |-> v]

Err(e) == [ok |-> FALSE, error |-> e]

DigitChars == <<"0", "1", "2", "3", "4", "5", "6", "7", "8", "9">>

IsDigit(ch) == \E i \in 1..10 : DigitChars[i] = ch

DigitValue(ch) == (CHOOSE i \in 1..10 : DigitChars[i] = ch) - 1

\* the characters the texts of the model are made of
Alphabet == {"0", "1", "3", "4", ".", "+", " "}

Texts == UNION {[1..n -> Alphabet] : n \in 0..MaxTextLen}

\* str::trim
RECURSIVE trim_start(_)
trim_start(s) == IF s # << >> /\ Head(s) = " " THEN trim_start(Tail(s)) ELSE s

RECURSIVE trim_end(_)
trim_end(s) ==
    IF s # << >> /\ s[Len(s)] = " " THEN trim_end(SubSeq(s, 1, Len(s) - 1)) ELSE s

trim(s) == trim_end(trim_start(s))

\* str::split('.') collected into a Vec
RECURSIVE split(_)
split(s) ==
    IF \E i \in 1..Len(s) : s[i] = "."
    THEN LET i == CHOOSE j \in 1..Len(s) : s[j] = "." /\ \A k \in 1..(j - 1) : s[k] # "."
         IN <<SubSeq(s, 1, i - 1)>> \o split(SubSeq(s, i + 1, Len(s)))
    ELSE <<s>>

RECURSIVE DigitsValue(_)
DigitsValue(s) ==
    IF s = << >> THEN 0
    ELSE 10 * DigitsValue(SubSeq(s, 1, Len(s) - 1)) + DigitValue(s[Len(s)])

RECURSIVE strip_zeros(_)
strip_zeros(s) == IF s # << >> /\ Head(s) = "0" THEN strip_zeros(Tail(s)) ELSE s

\* whether the decimal digits s denote a number greater than that of limit
RECURSIVE DigitsGreater(_, _)
DigitsGreater(s, limit) ==
    LET a == strip_zeros(s)
        b == strip_zeros(limit)
    IN IF Len(a) # Len(b) THEN Len(a) > Len(b)
       ELSE IF a = << >> THEN FALSE
       ELSE IF Head(a) # Head(b) THEN DigitValue(Head(a)) > DigitValue(Head(b))
       ELSE DigitsGreater(Tail(a), Tail(b))

\* u64::MAX and u64::MAX / 10000 in decimal digits
U64MaxDigits ==
    <<"1", "8", "4", "4", "6", "7", "4", "4", "0", "7", "3", "7", "0", "9", "5", "5",
      "1", "6", "1", "5">>

WholeLimitDigits == SubSeq(U64MaxDigits, 1, 16)

\* str::parse::<u64>: an optional leading +, then one or more digits, no overflow
u64_from_str(s) ==
    LET digits == IF s # << >> /\ Head(s) = "+" THEN Tail(s) ELSE s
    IN IF digits = << >> \/ \E i \in 1..Len(digits) : ~IsDigit(digits[i])
       THEN Err("ParseIntError")
       ELSE IF DigitsGreater(digits, U64MaxDigits) THEN Err("ParseIntError")
       ELSE [ok |-> TRUE, value |-> DigitsValue(digits), digits |-> digits]

parse_whole_part(s) ==
    LET whole == u64_from_str(s)
    IN IF ~whole.ok THEN Err("Malformed")
       ELSE IF DigitsGreater(whole.digits, WholeLimitDigits) THEN Err("ExceededPrecision")
       ELSE Ok(whole.value * 10000)

parse_decimal_part(s) ==
    LET decimal == u64_from_str(s)
    IN IF ~decimal.ok THEN Err("Malformed")
       ELSE IF decimal.value > 9999 THEN Err("ExceededPrecision")
       ELSE Ok(decimal.value)

Money_from_str(s) ==
    LET trimmed == trim(s)
        parts == split(trimmed)
    IN IF Len(trimmed) = 0 THEN Err("Malformed")
       ELSE CASE Len(parts) = 1 -> parse_whole_part(parts[1])
              [] Len(parts) = 2 ->
                    LET whole == parse_whole_part(parts[1])
                        decimal == parse_decimal_part(parts[2])
                    IN IF ~whole.ok THEN whole
                       ELSE IF ~decimal.ok THEN decimal
                       ELSE Ok(whole.value + decimal.value)
              [] OTHER -> Err("Malformed")

RECURSIVE u64_to_string(_)
u64_to_string(n) ==
    IF n < 10 THEN <<DigitChars[n + 1]>>
    ELSE u64_to_string(n \div 10) \o <<DigitChars[(n % 10) + 1]>>

Money_to_string(m) == u64_to_string(m \div 10000) \o <<".">> \o u64_to_string(m % 10000)

\* ---- TransactionRecord (src/transactions.rs) ----
Id(c, t) == [client_id |-> c, transaction_id |-> t]

Deposit(c, t, a) == [kind |-> "Deposit", id |-> Id(c, t), amount |-> a]

Withdrawl(c, t, a) == [kind |-> "Withdrawl", id |-> Id(c, t), amount |-> a]

Dispute(c, t) == [kind |-> "Dispute", id |-> Id(c, t)]

Resolve(c, t) == [kind |-> "Resolve", id |-> Id(c, t)]

Chargeback(c, t) == [kind |-> "Chargeback", id |-> Id(c, t)]

TransactionRecord ==
    {Deposit(c, t, a) : c \in Clients, t \in TxIds, a \in Amounts}
    \cup {Withdrawl(c, t, a) : c \in Clients, t \in TxIds, a \in Amounts}
    \cup {Dispute(c, t) : c \in Clients, t \in TxIds}
    \cup {Resolve(c, t) : c \in Clients, t \in TxIds}
    \cup {Chargeback(c, t) : c \in Clients, t \in TxIds}

amount(t) == IF t.kind \in {"Deposit", "Withdrawl"} THEN t.amount ELSE Money_zero

\* ---- Account (src/accounts.rs) ----
Account_create(client_id) ==
    [client_id |-> client_id, available |-> Money_zero, held |-> Money_zero,
     status |-> "Active"]

\* variant: a deposit rebuilds the account from its balances
apply_Deposit_reactivates(self, amt) ==
    [client_id |-> self.client_id, available |-> Money_add(self.available, amt),
     held |-> self.held, status |-> "Active"]

\* variant: a deposit sets the available balance instead of adding to it
apply_Deposit_overwrites(self, amt) ==
    [self EXCEPT !.available = amt]

apply_Deposit(self, amt) ==
    [self EXCEPT !.available = Money_add(self.available, amt)]

\* variant: the sufficient-funds test is not strict
apply_Withdrawl_not_strict(self, amt) ==
    IF amt <= self.available
    THEN [self EXCEPT !.available = Money_sub(self.available, amt)]
    ELSE self

apply_Withdrawl(self, amt) ==
    IF amt < self.available
    THEN [self EXCEPT !.available = Money_sub(self.available, amt)]
    ELSE self

\* variant: the dispute moves the whole disputed amount, whatever is available
apply_Dispute_unclamped(self, disputed_amount) ==
    [self EXCEPT !.held = Money_add(self.held, disputed_amount),
                 !.available = Money_sub(self.available, disputed_amount)]

\* variant: the dispute holds the whole disputed amount and takes what is available
apply_Dispute_holds_disputed_amount(self, disputed_amount) ==
    [self EXCEPT !.held = Money_add(self.held, disputed_amount),
                 !.available = Money_sub(self.available, min(self.available, disputed_amount))]

apply_Dispute(self, disputed_amount) ==
    [self EXCEPT !.held = Money_add(self.held, min(self.available, disputed_amount)),
                 !.available = Money_sub(self.available, min(self.available, disputed_amount))]

\* variant: the resolve credits the whole disputed amount to available
apply_Resolve_credits_all(self, disputed_amount) ==
    [self EXCEPT !.available = Money_add(self.available, disputed_amount),
                 !.held = Money_sub(self.held, min(self.held, disputed_amount))]

\* variant: the resolve releases the whole disputed amount, whatever is held
apply_Resolve_unclamped(self, disputed_amount) ==
    [self EXCEPT !.available = Money_add(self.available, disputed_amount),
                 !.held = Money_sub(self.held, disputed_amount)]

\* variant: the resolve credits available and leaves the held funds on hold
apply_Resolve_keeps_held(self, disputed_amount) ==
    [self EXCEPT !.available = Money_add(self.available, min(self.held, disputed_amount))]

apply_Resolve(self, disputed_amount) ==
    [self EXCEPT !.available = Money_add(self.available, min(self.held, disputed_amount)),
                 !.held = Money_sub(self.held, min(self.held, disputed_amount))]

\* variant: the chargeback locks whatever the disputed amount
apply_Chargeback_always_locks(self, disputed_amount) ==
    [self EXCEPT !.status = "Locked",
                 !.available = Money_add(self.available, min(self.held, disputed_amount)),
                 !.held = Money_sub(self.held, min(self.held, disputed_amount))]

\* variant: the chargeback releases the whole disputed amount, whatever is held
apply_Chargeback_unclamped(self, disputed_amount) ==
    [self EXCEPT !.status = IF disputed_amount > Money_zero THEN "Locked" ELSE self.status,
                 !.available = Money_add(self.available, disputed_amount),
                 !.held = Money_sub(self.held, disputed_amount)]

apply_Chargeback(self, disputed_amount) ==
    [self EXCEPT !.status = IF disputed_amount > Money_zero THEN "Locked" ELSE self.status,
                 !.available = Money_add(self.available, min(self.held, disputed_amount)),
                 !.held = Money_sub(self.held, min(self.held, disputed_amount))]

\* variant: a Locked account applies nothing
Account_apply_gated(self, t, disputed_amount) ==
    IF self.status = "Locked" THEN self
    ELSE CASE t.kind = "Deposit" -> apply_Deposit(self, t.amount)
           [] t.kind = "Withdrawl" -> apply_Withdrawl(self, t.amount)
           [] t.kind = "Dispute" -> apply_Dispute(self, disputed_amount)
           [] t.kind = "Resolve" -> apply_Resolve(self, disputed_amount)
           [] t.kind = "Chargeback" -> apply_Chargeback(self, disputed_amount)

Account_apply(self, t, disputed_amount) ==
    CASE t.kind = "Deposit" -> apply_Deposit(self, t.amount)
      [] t.kind = "Withdrawl" -> apply_Withdrawl(self, t.amount)
      [] t.kind = "Dispute" -> apply_Dispute(self, disputed_amount)
      [] t.kind = "Resolve" -> apply_Resolve(self, disputed_amount)
      [] t.kind = "Chargeback" -> apply_Chargeback(self, disputed_amount)

\* ---- AccountDatabase (src/accounts.rs) ----
AccountDatabase_new ==
    [accounts |-> << >>, transactions |-> << >>, disputed_transactions |-> {}]

\* variant: a Deposit is accepted whether or not its id has been recorded
can_process_transaction_replayed_deposit(t, recorded_transactions, disputed) ==
    LET recorded == t.id.transaction_id \in DOMAIN recorded_transactions
        consistent == IF recorded
                      THEN recorded_transactions[t.id.transaction_id].id.client_id
                               = t.id.client_id
                      ELSE TRUE
    IN CASE t.kind = "Deposit" -> TRUE
         [] t.kind = "Withdrawl" -> ~recorded
         [] t.kind = "Dispute" ->
                recorded /\ t.id.transaction_id \notin disputed /\ consistent
         [] t.kind \in {"Resolve", "Chargeback"} ->
                recorded /\ t.id.transaction_id \in disputed /\ consistent

\* variant: a Withdrawl is accepted whether or not its id has been recorded
can_process_transaction_replayed_withdrawl(t, recorded_transactions, disputed) ==
    LET recorded == t.id.transaction_id \in DOMAIN recorded_transactions
        consistent == IF recorded
                      THEN recorded_transactions[t.id.transaction_id].id.client_id
                               = t.id.client_id
                      ELSE TRUE
    IN CASE t.kind = "Deposit" -> ~recorded
         [] t.kind = "Withdrawl" -> TRUE
         [] t.kind = "Dispute" ->
                recorded /\ t.id.transaction_id \notin disputed /\ consistent
         [] t.kind \in {"Resolve", "Chargeback"} ->
                recorded /\ t.id.transaction_id \in disputed /\ consistent

\* variant: a Resolve or Chargeback is accepted whether or not the id is disputed
can_process_transaction_release_undisputed(t, recorded_transactions, disputed) ==
    LET recorded == t.id.transaction_id \in DOMAIN recorded_transactions
        consistent == IF recorded
                      THEN recorded_transactions[t.id.transaction_id].id.client_id
                               = t.id.client_id
                      ELSE TRUE
    IN CASE t.kind \in {"Deposit", "Withdrawl"} -> ~recorded
         [] t.kind = "Dispute" ->
                recorded /\ t.id.transaction_id \notin disputed /\ consistent
         [] t.kind \in {"Resolve", "Chargeback"} -> recorded /\ consistent

\* variant: the client ids of the record and of the logged transaction are not compared
can_process_transaction_any_client(t, recorded_transactions, disputed) ==
    LET recorded == t.id.transaction_id \in DOMAIN recorded_transactions
    IN CASE t.kind \in {"Deposit", "Withdrawl"} -> ~recorded
         [] t.kind = "Dispute" -> recorded /\ t.id.transaction_id \notin disputed
         [] t.kind \in {"Resolve", "Chargeback"} ->
                recorded /\ t.id.transaction_id \in disputed

can_process_transaction(t, recorded_transactions, disputed) ==
    LET transaction_has_been_recorded ==
            t.id.transaction_id \in DOMAIN recorded_transactions
        transaction_is_currently_disputed == t.id.transaction_id \in disputed
        client_ids_are_consistent ==
            IF t.id.transaction_id \in DOMAIN recorded_transactions
            THEN recorded_transactions[t.id.transaction_id].id.client_id = t.id.client_id
            ELSE TRUE
    IN CASE t.kind = "Deposit" -> ~transaction_has_been_recorded
         [] t.kind = "Withdrawl" -> ~transaction_has_been_recorded
         [] t.kind = "Dispute" ->
                transaction_has_been_recorded /\ ~transaction_is_currently_disputed
                /\ client_ids_are_consistent
         [] t.kind = "Resolve" ->
                transaction_has_been_recorded /\ transaction_is_currently_disputed
                /\ client_ids_are_consistent
         [] t.kind = "Chargeback" ->
                transaction_has_been_recorded /\ transaction_is_currently_disputed
                /\ client_ids_are_consistent

get_disputed_amount(t, recorded_transactions) ==
    IF t.kind \in {"Dispute", "Resolve", "Chargeback"}
       /\ t.id.transaction_id \in DOMAIN recorded_transactions
    THEN amount(recorded_transactions[t.id.transaction_id])
    ELSE Money_zero

\* HashMap::insert: the entry of the key is set, replacing any old one
insert(map, key, value) ==
    [k \in DOMAIN map \cup {key} |-> IF k = key THEN value ELSE map[k]]

\* variant: a Chargeback leaves the id in the disputed set
record_transaction_chargeback_stays(t, recorded_transactions, disputed) ==
    CASE t.kind \in {"Deposit", "Withdrawl"} ->
            [transactions |-> insert(recorded_transactions, t.id.transaction_id, t),
             disputed_transactions |-> disputed]
      [] t.kind = "Dispute" ->
            [transactions |-> recorded_transactions,
             disputed_transactions |-> disputed \cup {t.id.transaction_id}]
      [] t.kind = "Resolve" ->
            [transactions |-> recorded_transactions,
             disputed_transactions |-> disputed \ {t.id.transaction_id}]
      [] t.kind = "Chargeback" ->
            [transactions |-> recorded_transactions,
             disputed_transactions |-> disputed]

\* variant: a Resolve leaves the id in the disputed set
record_transaction_resolve_stays(t, recorded_transactions, disputed) ==
    CASE t.kind \in {"Deposit", "Withdrawl"} ->
            [transactions |-> insert(recorded_transactions, t.id.transaction_id, t),
             disputed_transactions |-> disputed]
      [] t.kind = "Dispute" ->
            [transactions |-> recorded_transactions,
             disputed_transactions |-> disputed \cup {t.id.transaction_id}]
      [] t.kind = "Resolve" ->
            [transactions |-> recorded_transactions,
             disputed_transactions |-> disputed]
      [] t.kind = "Chargeback" ->
            [transactions |-> recorded_transactions,
             disputed_transactions |-> disputed \ {t.id.transaction_id}]

record_transaction(t, recorded_transactions, disputed) ==
    CASE t.kind \in {"Deposit", "Withdrawl"} ->
            [transactions |-> insert(recorded_transactions, t.id.transaction_id, t),
             disputed_transactions |-> disputed]
      [] t.kind = "Dispute" ->
            [transactions |-> recorded_transactions,
             disputed_transactions |-> disputed \cup {t.id.transaction_id}]
      [] t.kind \in {"Resolve", "Chargeback"} ->
            [transactions |-> recorded_transactions,
             disputed_transactions |-> disputed \ {t.id.transaction_id}]

\* BTreeMap::entry(client_id).or_insert(Account::create(client_id))
or_insert(accts, client_id) ==
    IF client_id \in DOMAIN accts THEN accts
    ELSE insert(accts, client_id, Account_create(client_id))

\* variant: the account is looked up under the transaction id of the record
AccountDatabase_apply_keyed_by_transaction(db, t) ==
    LET key == t.id.transaction_id
        accts == or_insert(db.accounts, key)
    IN IF can_process_transaction(t, db.transactions, db.disputed_transactions)
       THEN LET rec == record_transaction(t, db.transactions, db.disputed_transactions)
                disputed_amount == get_disputed_amount(t, rec.transactions)
            IN [accounts |-> [accts EXCEPT ![key] =
                                  Account_apply(accts[key], t, disputed_amount)],
                transactions |-> rec.transactions,
                disputed_transactions |-> rec.disputed_transactions]
       ELSE [accounts |-> accts,
             transactions |-> db.transactions,
             disputed_transactions |-> db.disputed_transactions]

\* variant: the account is created only for a record that is accepted
AccountDatabase_apply_creates_on_accept(db, t) ==
    LET client_id == t.id.client_id
        accts == or_insert(db.accounts, client_id)
    IN IF can_process_transaction(t, db.transactions, db.disputed_transactions)
       THEN LET rec == record_transaction(t, db.transactions, db.disputed_transactions)
                disputed_amount == get_disputed_amount(t, rec.transactions)
            IN [accounts |-> [accts EXCEPT ![client_id] =
                                  Account_apply(accts[client_id], t, disputed_amount)],
                transactions |-> rec.transactions,
                disputed_transactions |-> rec.disputed_transactions]
       ELSE db

\* AccountDatabase::apply as a function of the whole store
AccountDatabase_apply(db, t) ==
    LET client_id == t.id.client_id
        accts == or_insert(db.accounts, client_id)
    IN IF can_process_transaction(t, db.transactions, db.disputed_transactions)
       THEN LET rec == record_transaction(t, db.transactions, db.disputed_transactions)
                disputed_amount == get_disputed_amount(t, rec.transactions)
            IN [accounts |-> [accts EXCEPT ![client_id] =
                                  Account_apply(accts[client_id], t, disputed_amount)],
                transactions |-> rec.transactions,
                disputed_transactions |-> rec.disputed_transactions]
       ELSE [accounts |-> accts,
             transactions |-> db.transactions,
             disputed_transactions |-> db.disputed_transactions]

\* the store value held by the variables
DB == [accounts |-> accounts, transactions |-> transactions,
       disputed_transactions |-> disputed_transactions]

\* the account a record addresses, as or_insert hands it to the handler
AccountOf(accts, client_id) == or_insert(accts, client_id)[client_id]

NotParsed == [ok |-> FALSE, error |-> "NotParsed"]

\* AccountDatabase::new, with nothing observed yet
EmptyStore ==
    /\ accounts = AccountDatabase_new.accounts
    /\ transactions = AccountDatabase_new.transactions
    /\ disputed_transactions = AccountDatabase_new.disputed_transactions
    /\ consumed = 0
    /\ deposited = [c \in Clients |-> 0]
    /\ withdrawn = [c \in Clients |-> 0]
    /\ moved = [t \in TxIds |-> 0]
    /\ open_disputes = {}
    /\ addressed = {}
    /\ served = {}
    /\ stream = << >>

Init ==
    /\ EmptyStore
    /\ text = << >>
    /\ parsed = NotParsed

\* one iteration of the loop of read_transactions: accounts.apply(&transaction).
\* deposited, withdrawn, moved, open_disputes, addressed and served only
\* observe the step.
ApplyRecord(t) ==
    LET db == AccountDatabase_apply(DB, t)
        ok == can_process_transaction(t, transactions, disputed_transactions)
        c == t.id.client_id
        before == AccountOf(accounts, c)
        after == db.accounts[c]
    IN /\ consumed < MaxRecords
       /\ consumed' = consumed + 1
       /\ accounts' = db.accounts
       /\ transactions' = db.transactions
       /\ disputed_transactions' = db.disputed_transactions
       /\ deposited' = IF ok /\ t.kind = "Deposit"
                       THEN [deposited EXCEPT ![c] = @ + t.amount] ELSE deposited
       /\ withdrawn' = IF ok /\ t.kind = "Withdrawl" /\ after.available # before.available
                       THEN [withdrawn EXCEPT ![c] = @ + t.amount] ELSE withdrawn
       /\ moved' = CASE ok /\ t.kind = "Dispute" ->
                        [moved EXCEPT ![t.id.transaction_id] = after.held - before.held]
                     [] ok /\ t.kind \in {"Resolve", "Chargeback"} ->
                        [moved EXCEPT ![t.id.transaction_id] = 0]
                     [] OTHER -> moved
       /\ open_disputes' = CASE ok /\ t.kind = "Dispute" ->
                                open_disputes \cup {t.id.transaction_id}
                             [] ok /\ t.kind \in {"Resolve", "Chargeback"} ->
                                open_disputes \ {t.id.transaction_id}
                             [] OTHER -> open_disputes
       /\ addressed' = addressed \cup {c}
       /\ served' = IF ok THEN served \cup {c} ELSE served

Apply(t) == ApplyRecord(t) /\ UNCHANGED <<stream, text, parsed>>

ApplyDeposit == \E c \in Clients, t \in TxIds, a \in Amounts : Apply(Deposit(c, t, a))

ApplyWithdrawl == \E c \in Clients, t \in TxIds, a \in Amounts : Apply(Withdrawl(c, t, a))

ApplyDispute == \E c \in Clients, t \in TxIds : Apply(Dispute(c, t))

ApplyResolve == \E c \in Clients, t \in TxIds : Apply(Resolve(c, t))

ApplyChargeback == \E c \in Clients, t \in TxIds : Apply(Chargeback(c, t))

Next ==
    \/ ApplyDeposit
    \/ ApplyWithdrawl
    \/ ApplyDispute
    \/ ApplyResolve
    \/ ApplyChargeback

Spec == Init /\ [][Next]_vars

\* streams without any Chargeback record
NextNoChargeback ==
    \/ ApplyDeposit
    \/ ApplyWithdrawl
    \/ ApplyDispute
    \/ ApplyResolve

SpecNoChargeback == Init /\ [][NextNoChargeback]_vars

\* the behaviours of Spec, for the properties of the accounts map
SpecAccounts == Init /\ [][Next]_vars

\* the behaviours of Spec, for the properties of the transaction log
SpecLog == Init /\ [][Next]_vars

\* ---- the rows of the test disputes_hold_only_available_funds, fed in any order ----
\* impl Into<TransactionRecord> for TransactionText; amount_text is << >> when
\* the row has no amount
TransactionText_into(kind, client_id, transaction_id, amount_text) ==
    LET amt == IF amount_text = << >> THEN Ok(Money_zero) ELSE Money_from_str(amount_text)
    IN CASE kind = "deposit" -> Deposit(client_id, transaction_id, amt.value)
         [] kind = "withdrawal" -> Withdrawl(client_id, transaction_id, amt.value)
         [] kind = "dispute" -> Dispute(client_id, transaction_id)
         [] kind = "resolve" -> Resolve(client_id, transaction_id)
         [] kind = "chargeback" -> Chargeback(client_id, transaction_id)

ScenarioRows ==
    <<TransactionText_into("deposit", 1, 1, <<"4", "2">>),
      TransactionText_into("deposit", 1, 3, <<"2", "0">>),
      TransactionText_into("withdrawal", 1, 2, <<"3", "0">>),
      TransactionText_into("dispute", 1, 1, << >>),
      TransactionText_into("withdrawal", 1, 4, <<"3", "2">>)>>

ScenarioApply ==
    \E i \in DOMAIN ScenarioRows :
        /\ ApplyRecord(ScenarioRows[i])
        /\ stream' = Append(stream, ScenarioRows[i])
        /\ UNCHANGED <<text, parsed>>

ScenarioSpec == Init /\ [][ScenarioApply]_vars

\* impl Into<AccountSummary> for &Account
AccountSummary(account) ==
    [client_id |-> account.client_id,
     available |-> Money_to_string(account.available),
     held |-> Money_to_string(account.held),
     total |-> Money_to_string(Money_add(account.available, account.held)),
     locked |-> account.status = "Locked"]

\* AccountDatabase::accounts: the values of the BTreeMap in ascending key order
RECURSIVE AccountDatabase_accounts(_)
AccountDatabase_accounts(accts) ==
    IF DOMAIN accts = {} THEN << >>
    ELSE LET top == CHOOSE k \in DOMAIN accts : \A j \in DOMAIN accts : j <= k
         IN Append(AccountDatabase_accounts([j \in DOMAIN accts \ {top} |-> accts[j]]),
                   accts[top])

\* ---- Money::from_str applied to one text ----
ParseInit ==
    /\ EmptyStore
    /\ text \in Texts
    /\ parsed = NotParsed

Parse ==
    /\ parsed = NotParsed
    /\ parsed' = Money_from_str(text)
    /\ UNCHANGED <<ledger, stream, text>>

ParseSpec == ParseInit /\ [][Parse]_vars

\* ---- what one more record would do to the store held by the variables ----
After(r) == AccountDatabase_apply(DB, r)

Accepted(r) == can_process_transaction(r, transactions, disputed_transactions)

DepositsAndWithdrawls == {r \in TransactionRecord : r.kind \in {"Deposit", "Withdrawl"}}

Withdrawls == {r \in TransactionRecord : r.kind = "Withdrawl"}

Disputes == {r \in TransactionRecord : r.kind = "Dispute"}

Releases == {r \in TransactionRecord : r.kind \in {"Resolve", "Chargeback"}}

Balances(a) == <<a.available, a.held>>

\* C1: a Withdrawal whose amount is not strictly less than the available balance
\* of the account it addresses leaves the account, the transaction log and the
\* disputed set as they were.
C1_InsufficientWithdrawalChangesNothing ==
    \A r \in Withdrawls :
        LET c == r.id.client_id
        IN ~(r.amount < AccountOf(accounts, c).available) =>
              /\ AccountOf(After(r).accounts, c) = AccountOf(accounts, c)
              /\ After(r).transactions = transactions
              /\ After(r).disputed_transactions = disputed_transactions

\* C2: applying a Deposit or Withdrawal twice in a row gives the store that
\* applying it once gives, and a Deposit or Withdrawal whose transaction id is
\* already in the log changes no balance of any account.
C2_Idempotent ==
    \A r \in DepositsAndWithdrawls :
        /\ AccountDatabase_apply(After(r), r) = After(r)
        /\ r.id.transaction_id \in DOMAIN transactions =>
              \A c \in DOMAIN After(r).accounts :
                  Balances(After(r).accounts[c]) = Balances(AccountOf(accounts, c))

\* a recorded id can be replayed with another amount and by another client,
\* with the stream not yet exhausted
C2_Witness ==
    /\ consumed < MaxRecords
    /\ \E t \in DOMAIN transactions :
          /\ transactions[t].amount > 0
          /\ accounts[transactions[t].id.client_id].available > 0
          /\ \E r \in DepositsAndWithdrawls :
                /\ r.id.transaction_id = t
                /\ r.id.client_id # transactions[t].id.client_id
                /\ r.amount # transactions[t].amount
                /\ r.id.client_id \in DOMAIN accounts

\* the records the acceptance table rejects, in the words of the table
Rejected(r) ==
    LET t == r.id.transaction_id
    IN \/ r.kind \in {"Deposit", "Withdrawl"} /\ t \in DOMAIN transactions
       \/ r.kind = "Dispute" /\ (t \notin DOMAIN transactions \/ t \in disputed_transactions)
       \/ r.kind \in {"Resolve", "Chargeback"} /\ t \notin disputed_transactions
       \/ /\ r.kind \in {"Dispute", "Resolve", "Chargeback"}
          /\ t \in DOMAIN transactions
          /\ transactions[t].id.client_id # r.id.client_id

\* C3 as stated: a rejected record leaves the whole store, the set of client
\* ids of the accounts map included, as it was.
C3_RejectedChangesNothing ==
    \A r \in TransactionRecord : Rejected(r) => After(r) = DB

\* C3 as amended: a rejected record leaves the log, the disputed set and every
\* existing account as they were; the only change is that the addressed client
\* gets an account (available 0, held 0, Active) if it had none.
C3_RejectedOnlyCreatesAccount ==
    \A r \in TransactionRecord :
        Rejected(r) =>
            LET c == r.id.client_id
                post == After(r)
            IN /\ post.transactions = transactions
               /\ post.disputed_transactions = disputed_transactions
               /\ DOMAIN post.accounts = DOMAIN accounts \cup {c}
               /\ \A k \in DOMAIN accounts : post.accounts[k] = accounts[k]
               /\ c \notin DOMAIN accounts =>
                     post.accounts[c] = [client_id |-> c, available |-> 0, held |-> 0,
                                         status |-> "Active"]

\* every kind of rejection is possible at once: a recorded and disputed id (a
\* duplicate, a second Dispute, a foreign Resolve), an unrecorded id, and a
\* client without an account
C3_Witness ==
    /\ consumed < MaxRecords
    /\ disputed_transactions # {}
    /\ DOMAIN transactions # TxIds
    /\ DOMAIN accounts # Clients
    /\ \E c \in DOMAIN accounts : accounts[c].held > 0

\* C4: over streams of Deposit, Withdrawal, Dispute and Resolve records, every
\* account's available + held is the sum of its accepted Deposits minus the sum
\* of its Withdrawals that were deducted from available.
C4_TotalConservation ==
    \A c \in DOMAIN accounts :
        accounts[c].available + accounts[c].held = deposited[c] - withdrawn[c]

\* an account that has had a withdrawal deducted and has funds on hold
C4_Witness ==
    \E c \in DOMAIN accounts :
        /\ withdrawn[c] > 0
        /\ deposited[c] > withdrawn[c]
        /\ accounts[c].held > 0
        /\ disputed_transactions # {}

\* C5: an accepted Resolve of a disputed transaction T moves from held to
\* available exactly what the accepted Dispute of T had moved to held.
C5_ResolveReleasesWhatDisputeHeld ==
    \A r \in TransactionRecord :
        r.kind = "Resolve" /\ Accepted(r) =>
            LET c == r.id.client_id
                post == After(r).accounts[c]
            IN /\ accounts[c].held - post.held = moved[r.id.transaction_id]
               /\ post.available - accounts[c].available = moved[r.id.transaction_id]

\* C6: a Withdrawal changes available only when it is accepted and its amount
\* is strictly less than available, and then by its amount; one whose amount
\* equals or exceeds available leaves it; available is never negative and a
\* withdrawal never brings it to zero.
C6_WithdrawalBound ==
    /\ \A c \in DOMAIN accounts : accounts[c].available >= 0
    /\ \A r \in Withdrawls :
          LET c == r.id.client_id
              pre == AccountOf(accounts, c).available
              post == After(r).accounts[c].available
          IN /\ post # pre => Accepted(r) /\ r.amount < pre /\ post = pre - r.amount
             /\ Accepted(r) /\ r.amount < pre => post = pre - r.amount
             /\ r.amount >= pre => post = pre
             /\ post >= 0
             /\ post # pre => post > 0

\* an account for which, with an unrecorded id, a withdrawal of the whole
\* balance is recorded but not deducted and a smaller one is deducted
C6_Witness ==
    /\ consumed < MaxRecords
    /\ \E c \in DOMAIN accounts, t \in TxIds \ DOMAIN transactions :
          LET a == accounts[c].available
          IN /\ a \in Amounts /\ a > 1
             /\ After(Withdrawl(c, t, a)).accounts[c].available = a
             /\ t \in DOMAIN After(Withdrawl(c, t, a)).transactions
             /\ After(Withdrawl(c, t, a - 1)).accounts[c].available = 1

\* C7: an accepted Dispute of T moves exactly min(available, logged amount of
\* T) from available to held: never more than available, and available + held
\* is unchanged.
C7_DisputeClamp ==
    \A r \in Disputes :
        Accepted(r) =>
            LET c == r.id.client_id
                pre == accounts[c]
                post == After(r).accounts[c]
                amt == transactions[r.id.transaction_id].amount
                m == IF pre.available <= amt THEN pre.available ELSE amt
            IN /\ post.held = pre.held + m
               /\ post.available = pre.available - m
               /\ m <= pre.available
               /\ post.available + post.held = pre.available + pre.held

\* a dispute has held less than the logged amount of its transaction
C7_Witness ==
    \E t \in disputed_transactions :
        /\ moved[t] > 0
        /\ moved[t] < transactions[t].amount
        /\ accounts[transactions[t].id.client_id].held = moved[t]

\* C8: an accepted Resolve or Chargeback of T moves exactly min(held, logged
\* amount of T) from held to available: never more than held.
C8_ReleaseClamp ==
    \A r \in Releases :
        Accepted(r) =>
            LET c == r.id.client_id
                pre == accounts[c]
                post == After(r).accounts[c]
                amt == transactions[r.id.transaction_id].amount
                m == IF pre.held <= amt THEN pre.held ELSE amt
            IN /\ post.available = pre.available + m
               /\ post.held = pre.held - m
               /\ m <= pre.held

\* a disputed transaction whose logged amount exceeds the funds on hold, so
\* that its Resolve and its Chargeback release the held funds only
C8_Witness ==
    /\ consumed < MaxRecords
    /\ \E t \in disputed_transactions :
          LET c == transactions[t].id.client_id
          IN /\ accounts[c].held > 0
             /\ accounts[c].held < transactions[t].amount
             /\ After(Resolve(c, t)).accounts[c].held = 0
             /\ After(Chargeback(c, t)).accounts[c].held = 0
             /\ After(Chargeback(c, t)).accounts[c].available
                    = accounts[c].available + accounts[c].held

\* C9: an account that is Locked is Locked in every later state.
C9_LockMonotonic ==
    [][\A c \in DOMAIN accounts :
           accounts[c].status = "Locked" =>
               c \in DOMAIN accounts' /\ accounts'[c].status = "Locked"]_vars

\* a Locked account whose only transaction is disputed: the Dispute was
\* applied after the Chargeback that locked the account
C9_Witness ==
    \E c \in DOMAIN accounts :
        /\ accounts[c].status = "Locked"
        /\ Cardinality(DOMAIN transactions) = 1
        /\ disputed_transactions # {}
        /\ accounts[c].held > 0

\* C10: a record changes an account's status only if it is an accepted
\* Chargeback, addressed to that account, of a transaction with a strictly
\* positive logged amount, and the status is then Locked; an accepted
\* Chargeback of a zero-amount transaction leaves the status as it was (an
\* Active account stays Active); no account has status Unknown.
C10_StatusChange ==
    /\ \A c \in DOMAIN accounts : accounts[c].status \in {"Active", "Locked"}
    /\ \A r \in TransactionRecord :
          \A c \in DOMAIN After(r).accounts :
              LET pre == AccountOf(accounts, c).status
                  post == After(r).accounts[c].status
                  t == r.id.transaction_id
              IN /\ post # pre =>
                       /\ r.kind = "Chargeback" /\ Accepted(r) /\ r.id.client_id = c
                       /\ transactions[t].amount > 0
                       /\ post = "Locked"
                 /\ (r.kind = "Chargeback" /\ Accepted(r) /\ transactions[t].amount = 0) =>
                       post = pre

\* one client's account is Locked by a Chargeback and the other's is Active
\* with a disputed zero-amount transaction, whose Chargeback is accepted
C10_Witness ==
    /\ consumed < MaxRecords
    /\ \E t \in disputed_transactions :
          LET c == transactions[t].id.client_id
          IN /\ transactions[t].amount = 0
             /\ accounts[c].status = "Active"
             /\ Accepted(Chargeback(c, t))
             /\ After(Chargeback(c, t)).accounts[c].status = "Active"

\* dispute, resolve and chargeback records
Lifecycle == Disputes \cup Releases

\* C11: a record addressed to one client leaves the account of every other
\* client as it was, also when it references a transaction that the other
\* client recorded.
C11_Independence ==
    \A r \in TransactionRecord :
        LET post == After(r)
        IN \A c \in DOMAIN accounts :
               c # r.id.client_id => post.accounts[c] = accounts[c]

\* a client with funds holds a recorded transaction that another client, who
\* has funds too, can name in a Dispute and reuse in a Deposit
C11_Witness ==
    /\ consumed < MaxRecords
    /\ \E t \in DOMAIN transactions, a \in DOMAIN accounts :
          LET b == transactions[t].id.client_id
          IN /\ a # b
             /\ accounts[b].available > 0
             /\ accounts[a].available > 0
             /\ transactions[t].amount > 0

\* C12: a transaction id is in the disputed set exactly when a Dispute of it
\* has been accepted and no Resolve or Chargeback of it has been accepted since.
C12_DisputedIffOpen == disputed_transactions = open_disputes

\* an account locked by a Chargeback has funds on hold for a disputed id while
\* another logged id is not disputed
C12_Witness ==
    /\ disputed_transactions # {}
    /\ DOMAIN transactions \ disputed_transactions # {}
    /\ \E c \in DOMAIN accounts : accounts[c].status = "Locked" /\ accounts[c].held > 0

\* C13: every log entry is a Deposit or Withdrawal filed under its own
\* transaction id; a Deposit or Withdrawal with an unrecorded id becomes the
\* entry of that id, and no record of any client replaces or removes an entry.
C13_LogKeepsFirst ==
    /\ \A t \in DOMAIN transactions :
          /\ transactions[t].kind \in {"Deposit", "Withdrawl"}
          /\ transactions[t].id.transaction_id = t
    /\ \A r \in TransactionRecord :
          LET post == After(r).transactions
              t == r.id.transaction_id
          IN /\ \A k \in DOMAIN transactions :
                    k \in DOMAIN post /\ post[k] = transactions[k]
             /\ (r.kind \in {"Deposit", "Withdrawl"} /\ t \notin DOMAIN transactions) =>
                    t \in DOMAIN post /\ post[t] = r
             /\ DOMAIN post \subseteq DOMAIN transactions \cup {t}
             /\ r.kind \in {"Dispute", "Resolve", "Chargeback"} => post = transactions

\* a logged id that has been through a dispute, with records left to apply
C13_Witness ==
    /\ consumed < MaxRecords
    /\ consumed > Cardinality(DOMAIN transactions) + 1
    /\ \E t \in DOMAIN transactions :
          /\ transactions[t].amount > 0
          /\ t \in disputed_transactions

\* C14: an accepted Dispute, Resolve or Chargeback names a logged transaction
\* of its own client, not disputed for a Dispute and disputed for the other
\* two; one sent by another client, and a Resolve or Chargeback of a
\* transaction that is not disputed, change no balance, no status and not the
\* disputed set.
C14_LifecycleAcceptance ==
    \A r \in Lifecycle :
        LET t == r.id.transaction_id
            post == After(r)
            foreign == t \in DOMAIN transactions
                       /\ transactions[t].id.client_id # r.id.client_id
            idle == r.kind \in {"Resolve", "Chargeback"} /\ t \notin disputed_transactions
            changed == \/ post.disputed_transactions # disputed_transactions
                       \/ \E c \in DOMAIN post.accounts :
                              post.accounts[c] # AccountOf(accounts, c)
        IN /\ Accepted(r) =>
                 /\ t \in DOMAIN transactions
                 /\ transactions[t].id.client_id = r.id.client_id
                 /\ r.kind = "Dispute" => t \notin disputed_transactions
                 /\ r.kind \in {"Resolve", "Chargeback"} => t \in disputed_transactions
           /\ changed => Accepted(r)
           /\ (foreign \/ idle) => ~changed

\* a client with funds on hold owns a disputed and an undisputed transaction,
\* and the other client has an account with funds
C14_Witness ==
    /\ consumed < MaxRecords
    /\ \E t \in disputed_transactions, u \in DOMAIN transactions \ disputed_transactions,
          b \in DOMAIN accounts :
          LET a == transactions[t].id.client_id
          IN /\ b # a
             /\ accounts[a].held > 0
             /\ transactions[u].amount > 0

\* the stream of C15: the rows of the test without its second deposit
C15_Stream == <<ScenarioRows[1], ScenarioRows[3], ScenarioRows[4], ScenarioRows[5]>>

\* C15 as stated: deposit(1,1,42); withdrawal(1,2,30); dispute(1,1);
\* withdrawal(1,4,32) ends with client 1 at available 0, held 32, total 32,
\* not locked.
C15_EndsWith32Held ==
    stream = C15_Stream =>
        /\ DOMAIN accounts = {1}
        /\ AccountSummary(accounts[1]) =
              [client_id |-> 1, available |-> <<"0", ".", "0">>,
               held |-> <<"3", "2", ".", "0">>, total |-> <<"3", "2", ".", "0">>,
               locked |-> FALSE]

\* C15 as amended: the same stream ends with client 1 at available 0, held 12,
\* total 12, not locked.
C15_EndsWith12Held ==
    stream = C15_Stream =>
        /\ DOMAIN accounts = {1}
        /\ accounts[1].available = 0
        /\ accounts[1].held = 120000
        /\ AccountSummary(accounts[1]) =
              [client_id |-> 1, available |-> <<"0", ".", "0">>,
               held |-> <<"1", "2", ".", "0">>, total |-> <<"1", "2", ".", "0">>,
               locked |-> FALSE]

C15_Witness == stream = C15_Stream /\ transactions[4].amount = 320000

Pow10(k) == CASE k = 0 -> 1 [] k = 1 -> 10 [] k = 2 -> 100 [] k = 3 -> 1000

AllDigits(s) == s # << >> /\ \A i \in 1..Len(s) : IsDigit(s[i])

\* C18: a text w.f whose fractional part f has k digits, 1 <= k <= 4, parses
\* to w * 10000 + f * 10^(4 - k); a fractional part of more than 4 digits is
\* rejected.
C18_FractionReadAtFourDigits ==
    parsed # NotParsed =>
        \A i \in 1..Len(text) :
            LET w == SubSeq(text, 1, i - 1)
                f == SubSeq(text, i + 1, Len(text))
            IN (text[i] = "." /\ AllDigits(w) /\ AllDigits(f)) =>
                   IF Len(f) <= 4
                   THEN parsed = Ok(DigitsValue(w) * 10000 + DigitsValue(f) * Pow10(4 - Len(f)))
                   ELSE ~parsed.ok

\* C16: a Locked account is not gated: a Deposit with an unrecorded id adds
\* its amount to available, a Withdrawal with an unrecorded id and amount <
\* available takes it, and an accepted Dispute, Resolve or Chargeback moves
\* min(available, amount) to held, or min(held, amount) back, as for an Active
\* account.
C16_LockedNotGated ==
    \A r \in TransactionRecord :
        LET c == r.id.client_id
            t == r.id.transaction_id
        IN (c \in DOMAIN accounts /\ accounts[c].status = "Locked") =>
               LET pre == accounts[c]
                   post == After(r).accounts[c]
                   amt == transactions[t].amount
                   hold == IF pre.available <= amt THEN pre.available ELSE amt
                   back == IF pre.held <= amt THEN pre.held ELSE amt
               IN /\ (r.kind = "Deposit" /\ t \notin DOMAIN transactions) =>
                        Balances(post) = <<pre.available + r.amount, pre.held>>
                  /\ (r.kind = "Withdrawl" /\ t \notin DOMAIN transactions
                      /\ r.amount < pre.available) =>
                        Balances(post) = <<pre.available - r.amount, pre.held>>
                  /\ (r.kind = "Dispute" /\ Accepted(r)) =>
                        Balances(post) = <<pre.available - hold, pre.held + hold>>
                  /\ (r.kind \in {"Resolve", "Chargeback"} /\ Accepted(r)) =>
                        Balances(post) = <<pre.available + back, pre.held - back>>
                  /\ post.status = "Locked"

\* a Locked account with funds, an unrecorded id for a Deposit or Withdrawal
\* and a transaction of its own that can be disputed again
C16_Witness ==
    /\ consumed < MaxRecords
    /\ DOMAIN transactions # TxIds
    /\ \E t \in DOMAIN transactions \ disputed_transactions :
          LET c == transactions[t].id.client_id
          IN /\ accounts[c].status = "Locked"
             /\ accounts[c].available > 1
             /\ transactions[t].amount > 0

\* C17: the accounts of the store, and so the rows iterated in ascending
\* client id, are exactly the clients addressed by a record applied so far,
\* accepted or not; an account whose client has had no record accepted has
\* available 0, held 0 and status Active.
C17_AccountsAreAddressedClients ==
    LET rows == AccountDatabase_accounts(accounts)
    IN /\ DOMAIN accounts = addressed
       /\ {rows[i].client_id : i \in 1..Len(rows)} = addressed
       /\ Len(rows) = Cardinality(addressed)
       /\ \A i, j \in 1..Len(rows) : i < j => rows[i].client_id < rows[j].client_id
       /\ \A c \in addressed \ served :
              accounts[c] = [client_id |-> c, available |-> 0, held |-> 0,
                             status |-> "Active"]

\* one client has had records accepted, another has only had records rejected
C17_Witness ==
    /\ served # {}
    /\ addressed \ served # {}
    /\ \E c \in served : accounts[c].held > 0

\* ids for a further Deposit: those of the stream and one it never uses
DepositIds == 1..(MaxTx + 1)

\* C19: two Deposits with distinct unrecorded ids give the same store in either
\* order, and each addressed account's available grows by what was deposited
\* to it.
C19_DepositsCommute ==
    \A ta, tb \in DepositIds \ DOMAIN transactions :
        ta < tb =>
            \A ca, cb \in Clients, xa, xb \in Amounts :
                LET a == Deposit(ca, ta, xa)
                    b == Deposit(cb, tb, xb)
                    ab == AccountDatabase_apply(After(a), b)
                    ba == AccountDatabase_apply(After(b), a)
                IN /\ ab = ba
                   /\ ab.accounts[ca].available =
                         AccountOf(accounts, ca).available + xa + (IF cb = ca THEN xb ELSE 0)
                   /\ ab.accounts[cb].available =
                         AccountOf(accounts, cb).available + xb + (IF cb = ca THEN xa ELSE 0)

\* both clients have an account, one with funds available, and an id of the
\* stream is still unrecorded
C19_Witness ==
    /\ consumed + 2 <= MaxRecords
    /\ TxIds \ DOMAIN transactions # {}
    /\ DOMAIN accounts = Clients
    /\ \E c \in DOMAIN accounts : accounts[c].available > 0

\* C20: no subtraction of Account::apply takes more than there is: available
\* and held are never negative, in any reachable store and after any further
\* record.
C20_NoUnderflow ==
    /\ \A c \in DOMAIN accounts : accounts[c].available >= 0 /\ accounts[c].held >= 0
    /\ \A r \in TransactionRecord :
          LET post == After(r).accounts[r.id.client_id]
          IN post.available >= 0 /\ post.held >= 0

\* an account with nothing available, funds on hold for a disputed transaction
\* larger than them, and an undisputed transaction that can be disputed
C20_Witness ==
    /\ consumed < MaxRecords
    /\ \E t \in disputed_transactions, u \in DOMAIN transactions \ disputed_transactions :
          LET c == transactions[t].id.client_id
          IN /\ transactions[u].id.client_id = c
             /\ transactions[u].amount > 0
             /\ accounts[c].available = 0
             /\ accounts[c].held > 0
             /\ accounts[c].held < transactions[t].amount

\* the logged amounts of the transactions in ids, summed
RECURSIVE SumOfAmounts(_)
SumOfAmounts(ids) ==
    IF ids = {} THEN 0
    ELSE LET t == CHOOSE u \in ids : TRUE
         IN transactions[t].amount + SumOfAmounts(ids \ {t})

\* the currently disputed transactions of client c
DisputedOf(c) == {t \in disputed_transactions : transactions[t].id.client_id = c}

\* C21: each account's held balance is at most the sum of the logged amounts
\* of its client's currently disputed transactions; an account with no
\* currently disputed transaction has nothing on hold.
C21_HeldWithinDisputed ==
    \A c \in DOMAIN accounts :
        /\ accounts[c].held <= SumOfAmounts(DisputedOf(c))
        /\ DisputedOf(c) = {} => accounts[c].held = 0

\* one client has two disputed transactions and holds some funds, less than
\* their amounts together
C21_Witness ==
    \E c \in DOMAIN accounts :
        /\ Cardinality(DisputedOf(c)) = 2
        /\ accounts[c].held > 0
        /\ accounts[c].held < SumOfAmounts(DisputedOf(c))

\* what a further Dispute of the logged transaction t by its owner does in the
\* store db: it is accepted, moves min(available, amount of t) from available
\* to held, and a Resolve or a Chargeback of t after it is accepted
Reopens(db, t) ==
    LET c == db.transactions[t].id.client_id
        pre == db.accounts[c]
        hold == min(pre.available, db.transactions[t].amount)
        disputed == AccountDatabase_apply(db, Dispute(c, t))
    IN /\ can_process_transaction(Dispute(c, t), db.transactions, db.disputed_transactions)
       /\ t \in disputed.disputed_transactions
       /\ Balances(disputed.accounts[c]) = <<pre.available - hold, pre.held + hold>>
       /\ \A release \in {Resolve(c, t), Chargeback(c, t)} :
              /\ can_process_transaction(release, disputed.transactions,
                                         disputed.disputed_transactions)
              /\ t \notin AccountDatabase_apply(disputed, release).disputed_transactions

\* C22: the dispute lifecycle is repeatable. A step that takes a transaction
\* out of the disputed set, an accepted Resolve or Chargeback, leaves it logged
\* and open to a further Dispute by its owner; and in every reachable store
\* every logged transaction that is not disputed is open to one, so none is
\* ever closed to disputes.
C22_LifecycleRepeatable ==
    /\ [][\A t \in disputed_transactions \ disputed_transactions' :
              t \in DOMAIN transactions' /\ Reopens(DB', t)]_vars
    /\ [](\A t \in DOMAIN transactions \ disputed_transactions : Reopens(DB, t))

\* a Chargeback has locked an account that has funds available and a logged
\* transaction that is not disputed, with room for a Dispute and its release
C22_Witness ==
    /\ consumed + 2 <= MaxRecords
    /\ disputed_transactions = {}
    /\ \E t \in DOMAIN transactions :
          LET c == transactions[t].id.client_id
          IN /\ accounts[c].status = "Locked"
             /\ accounts[c].available > 0
             /\ transactions[t].amount > 0

====
